---- MODULE Spec2Model ----
(***************************************************************************)
(* Model of irrd/rpsl/parser.py: the RPSLObject parse / validate / render  *)
(* / update pipeline.                                                      *)
(*                                                                         *)
(* A Python str is modelled as a sequence of one-character strings, a      *)
(* Python list as a sequence, a dict as a function.  Every str method the  *)
(* parser calls (strip, splitlines, split, startswith, lower, ljust,       *)
(* replace, join) is an operator computing what the method computes on     *)
(* the characters of the model's alphabet.                                 *)
(***************************************************************************)
EXTENDS Integers, Sequences, FiniteSets, TLC

VARIABLES
    pc,                 \* "new" | "parsed" | "raised": lifecycle of the RPSLObject
    strict_validation,  \* self.strict_validation
    messages,           \* self.messages: the ordered error list
    object_data,        \* self._object_data: list of (attr, value, continuation_chars)
    cleaned_data,       \* self.cleaned_data: dict attr -> cleaned str
    raised,             \* exception escaping the most recent call ("none" if it returned)
    result,             \* return value of the most recent call
    call,               \* the most recent call and its arguments (history)
    extracted,          \* _object_data as _extract_attributes_values left it (history)
    clean_calls,        \* the field.clean invocations of _clean_attribute_data (history)
    updates             \* number of _update_attribute_value calls made

vars == <<pc, strict_validation, messages, object_data, cleaned_data, raised,
          result, call, extracted, clean_calls, updates>>

(***************************************************************************)
(* Bounds of the model.                                                    *)
(***************************************************************************)
MaxLines == 4
MaxUpdates == 1
MaxNewValues == 2
MaxValueLen == 3

(***************************************************************************)
(* Python str primitives.                                                  *)
(***************************************************************************)
NL == "\n"
TAB == "\t"

\* The characters str.strip() (no argument) removes, among the alphabet.
Whitespace == {" ", TAB, NL}

\* str.lower() / str.upper() on one character of the alphabet.
LowerChar(c) ==
    CASE c = "A" -> "a"
      [] c = "X" -> "x"
      [] c = "Y" -> "y"
      [] OTHER -> c

UpperChar(c) ==
    CASE c = "a" -> "A"
      [] c = "b" -> "B"
      [] c = "c" -> "C"
      [] c = "d" -> "D"
      [] c = "k" -> "K"
      [] c = "x" -> "X"
      [] c = "y" -> "Y"
      [] OTHER -> c

Lower(s) == [i \in 1..Len(s) |-> LowerChar(s[i])]
Upper(s) == [i \in 1..Len(s) |-> UpperChar(s[i])]

RECURSIVE LStrip(_, _)
LStrip(s, chars) ==
    IF s # <<>> /\ Head(s) \in chars THEN LStrip(Tail(s), chars) ELSE s

RECURSIVE RStrip(_, _)
RStrip(s, chars) ==
    IF s # <<>> /\ s[Len(s)] \in chars
    THEN RStrip(SubSeq(s, 1, Len(s) - 1), chars)
    ELSE s

\* str.strip(chars)
Strip(s, chars) == RStrip(LStrip(s, chars), chars)

\* str.find(c) + 1 for a one-character c: 0 when c does not occur.
IndexOf(s, c) ==
    IF \E i \in 1..Len(s) : s[i] = c
    THEN CHOOSE i \in 1..Len(s) : s[i] = c /\ \A j \in 1..(i - 1) : s[j] # c
    ELSE 0

Contains(s, c) == \E i \in 1..Len(s) : s[i] = c

\* str.split(sep) for a one-character sep: always at least one part.
RECURSIVE Split(_, _)
SplitAt(s, sep, i) ==
    IF i = 0
    THEN <<s>>
    ELSE <<SubSeq(s, 1, i - 1)>> \o Split(SubSeq(s, i + 1, Len(s)), sep)

Split(s, sep) == SplitAt(s, sep, IndexOf(s, sep))

\* str.split(sep, maxsplit=1): one part when sep is absent, else two.
SplitOnceAt(s, i) ==
    IF i = 0
    THEN <<s>>
    ELSE <<SubSeq(s, 1, i - 1), SubSeq(s, i + 1, Len(s))>>

SplitOnce(s, sep) == SplitOnceAt(s, IndexOf(s, sep))

\* str.splitlines(): a final line break opens no further line, "" has no lines.
DropFinalEmpty(parts) ==
    IF parts[Len(parts)] = <<>> THEN SubSeq(parts, 1, Len(parts) - 1) ELSE parts

SplitLines(s) == DropFinalEmpty(Split(s, NL))

\* sep.join(parts)
RECURSIVE Join(_, _)
Join(parts, sep) ==
    IF parts = <<>> THEN <<>>
    ELSE IF Len(parts) = 1 THEN parts[1]
    ELSE parts[1] \o sep \o Join(Tail(parts), sep)

\* str.replace(old, new): leftmost non-overlapping occurrences; an empty old
\* matches before every character and at the end.
RECURSIVE ReplaceEmpty(_, _)
ReplaceEmpty(s, new) ==
    IF s = <<>> THEN new ELSE new \o <<Head(s)>> \o ReplaceEmpty(Tail(s), new)

RECURSIVE ReplaceNonEmpty(_, _, _)
ReplaceNonEmpty(s, old, new) ==
    IF Len(s) < Len(old) THEN s
    ELSE IF SubSeq(s, 1, Len(old)) = old
         THEN new \o ReplaceNonEmpty(SubSeq(s, Len(old) + 1, Len(s)), old, new)
         ELSE <<Head(s)>> \o ReplaceNonEmpty(Tail(s), old, new)

Replace(s, old, new) ==
    IF old = <<>> THEN ReplaceEmpty(s, new) ELSE ReplaceNonEmpty(s, old, new)

\* n spaces
Spaces(n) == [i \in 1..n |-> " "]

\* str.ljust(width)
LJust(s, width) == IF Len(s) >= width THEN s ELSE s \o Spaces(width - Len(s))

RPSL_ATTRIBUTE_TEXT_WIDTH == 16

(***************************************************************************)
(* The schema of the object class being parsed: the `fields` a subclass of *)
(* RPSLObject declares, and the field clean capability.  Both live outside *)
(* parser.py (fields.py, and the per-type subclasses).                     *)
(***************************************************************************)
fields ==
    << [name |-> <<"a">>, primary_key |-> TRUE,  lookup_key |-> FALSE,
        optional |-> FALSE, multiple |-> FALSE, kind |-> "text"],
       [name |-> <<"b">>, primary_key |-> FALSE, lookup_key |-> FALSE,
        optional |-> TRUE,  multiple |-> TRUE,  kind |-> "word"],
       [name |-> <<"c">>, primary_key |-> FALSE, lookup_key |-> TRUE,
        optional |-> TRUE,  multiple |-> FALSE, kind |-> "text"] >>

\* field.clean(value, messages): a free-text field returns the value as it is;
\* a single-word field fails (records a message, yields nothing) on an empty
\* value or one holding a separator, and else returns the value upper-cased.
FieldClean(field, value) ==
    IF field.kind = "text"
    THEN [ok |-> TRUE, value |-> value, errors |-> <<>>]
    ELSE IF value = <<>> \/ Contains(value, " ") \/ Contains(value, ",")
              \/ Contains(value, TAB)
         THEN [ok |-> FALSE, value |-> <<>>,
               errors |-> << <<"field", field.name>> >>]
         ELSE [ok |-> TRUE, value |-> Upper(value), errors |-> <<>>]

(***************************************************************************)
(* RPSLObjectMeta.__init__: the data derived once per class from `fields`. *)
(***************************************************************************)
FieldNames(fs) == [i \in 1..Len(fs) |-> fs[i].name]

IsPrimaryKey(f) == f.primary_key
IsLookupKey(f) == f.lookup_key
IsRequired(f) == ~f.optional
IsMultiple(f) == f.multiple

rpsl_object_class == fields[1].name
pk_fields == FieldNames(SelectSeq(fields, IsPrimaryKey))
lookup_fields == FieldNames(SelectSeq(fields, IsLookupKey))
attrs_allowed == FieldNames(fields)
attrs_required == FieldNames(SelectSeq(fields, IsRequired))
attrs_multiple == FieldNames(SelectSeq(fields, IsMultiple))

Range(s) == {s[i] : i \in 1..Len(s)}

\* self.fields.get(attr_name) is not None
HasField(attr_name) == \E i \in 1..Len(fields) : fields[i].name = attr_name
FieldOf(attr_name) == fields[CHOOSE i \in 1..Len(fields) : fields[i].name = attr_name]

\* _re_attr_name = re.compile(r"^[a-z0-9_-]+$")
AttrNameChars ==
    {"a", "b", "c", "d", "e", "f", "g", "h", "i", "j", "k", "l", "m", "n", "o",
     "p", "q", "r", "s", "t", "u", "v", "w", "x", "y", "z", "0", "1", "2", "3",
     "4", "5", "6", "7", "8", "9", "_", "-"}

ReAttrNameMatch(s) == s # <<>> /\ \A i \in 1..Len(s) : s[i] \in AttrNameChars

(***************************************************************************)
(* RPSLObject._extract_attributes_values                                   *)
(***************************************************************************)
continuation_chars == {" ", "+", TAB}

\* line.startswith(continuation_chars)
StartsWithContinuation(line) == line # <<>> /\ line[1] \in continuation_chars

\* Local state of the loop.  attr = <<>> stands for both None and "": the code
\* only tests current_attr for truth.  status: "run", "halt" (the two early
\* returns) or "ValueError" (the tuple unpacking of a one-element split).
ExtractStart(data) ==
    [attr |-> <<>>, value |-> <<>>, cc |-> <<>>, data |-> data,
     errors |-> <<>>, status |-> "run"]

\* `if current_attr: self._object_data.append((attr, value, chars))`
Flush(st) ==
    IF st.attr # <<>> THEN Append(st.data, <<st.attr, st.value, st.cc>>) ELSE st.data

\* Lines 136-142: the new attribute is pending; a malformed name halts.
ExtractNewAttribute(st, line_no, attr, value) ==
    IF attr \notin {attrs_allowed[i] : i \in 1..Len(attrs_allowed)}
       /\ ~ReAttrNameMatch(attr)
    THEN [st EXCEPT !.attr = attr, !.value = value, !.cc = <<>>,
                    !.errors = Append(@, <<"malformed_name", line_no + 1>>),
                    !.status = "halt"]
    ELSE [st EXCEPT !.attr = attr, !.value = value, !.cc = <<>>]

\* Lines 129-135: flush what is pending, then unpack line.split(":", maxsplit=1).
ExtractStartLine(st, line_no, parts) ==
    IF Len(parts) # 2
    THEN [st EXCEPT !.data = Flush(st), !.status = "ValueError"]
    ELSE ExtractNewAttribute([st EXCEPT !.data = Flush(st)], line_no,
                             Lower(parts[1]), Strip(parts[2], Whitespace))

\* ExtractLine, were the empty-line return to save the pending attribute first.
ExtractLineFlushingOnEmpty(st, line_no, line) ==
    IF line = <<>>
    THEN [st EXCEPT !.data = Flush(st),
                    !.errors = Append(@, <<"empty_line", line_no + 1>>),
                    !.status = "halt"]
    ELSE IF ~StartsWithContinuation(line)
    THEN ExtractStartLine(st, line_no, SplitOnce(line, ":"))
    ELSE [st EXCEPT !.value = @ \o <<NL>> \o Strip(Tail(line), Whitespace),
                    !.cc = Append(@, line[1])]

\* One iteration of the for loop over the physical lines; line_no counts from 0.
ExtractLine(st, line_no, line) ==
    IF line = <<>>
    THEN [st EXCEPT !.errors = Append(@, <<"empty_line", line_no + 1>>),
                    !.status = "halt"]
    ELSE IF ~StartsWithContinuation(line)
    THEN ExtractStartLine(st, line_no, SplitOnce(line, ":"))
    ELSE [st EXCEPT !.value = @ \o <<NL>> \o Strip(Tail(line), Whitespace),
                    !.cc = Append(@, line[1])]

RECURSIVE ExtractLoop(_, _, _)
ExtractLoop(st, lines, i) ==
    IF i > Len(lines) \/ st.status # "run"
    THEN st
    ELSE ExtractLoop(ExtractLine(st, i - 1, lines[i]), lines, i + 1)

\* After the loop: the last pending attribute is flushed unless the method
\* returned early.  status "ok" when the method returned.
ExtractFinish(st) ==
    IF st.status = "run"
    THEN [data |-> Flush(st), errors |-> st.errors, status |-> "ok"]
    ELSE [data |-> st.data, errors |-> st.errors,
          status |-> IF st.status = "halt" THEN "ok" ELSE st.status]

\* The whole method: [data, errors, status].
ExtractAttributesValues(data, text) ==
    ExtractFinish(ExtractLoop(ExtractStart(data),
                              SplitLines(Strip(text, Whitespace)), 1))

(***************************************************************************)
(* RPSLObject._normalise_rpsl_value                                        *)
(***************************************************************************)
\* line.split("#")[0].strip("\n, ")
NormaliseLine(line) == Strip(Split(line, "#")[1], {NL, ",", " "})

NonEmpty(s) == s # <<>>

\* Lines 231-235: the loop over value.splitlines() and the join.
NormaliseLines(lines) ==
    Join(SelectSeq([i \in 1..Len(lines) |-> NormaliseLine(lines[i])], NonEmpty),
         <<",">>)

NormaliseRpslValue(value) ==
    IF ~Contains(value, NL)
    THEN IF Contains(value, "#")
         THEN Strip(Split(value, "#")[1], Whitespace)
         ELSE Strip(value, Whitespace)
    ELSE NormaliseLines(SplitLines(value))

(***************************************************************************)
(* RPSLObject._validate_attribute_counts                                   *)
(***************************************************************************)
AttrNames(data) == [i \in 1..Len(data) |-> data[i][1]]

\* Counter(names): the distinct names in order of first occurrence ...
RECURSIVE DistinctInOrder(_, _, _)
DistinctInOrder(names, i, acc) ==
    IF i > Len(names) THEN acc
    ELSE DistinctInOrder(names, i + 1,
                         IF \E j \in 1..Len(acc) : acc[j] = names[i]
                         THEN acc ELSE Append(acc, names[i]))

\* ... and the count of each.
CountOf(names, n) == Cardinality({i \in 1..Len(names) : names[i] = n})

\* PresentErrors, were the second test an `elif`.
PresentErrorsShortCircuit(names, attr_name) ==
    IF \A i \in 1..Len(attrs_allowed) : attrs_allowed[i] # attr_name
    THEN << <<"unrecognised", attr_name>> >>
    ELSE IF CountOf(names, attr_name) > 1
            /\ \A i \in 1..Len(attrs_multiple) : attrs_multiple[i] # attr_name
         THEN << <<"multiple", attr_name>> >>
         ELSE <<>>

\* The body of the loop over attrs_present.items()
PresentErrors(names, attr_name) ==
    (IF \A i \in 1..Len(attrs_allowed) : attrs_allowed[i] # attr_name
     THEN << <<"unrecognised", attr_name>> >> ELSE <<>>)
    \o
    (IF CountOf(names, attr_name) > 1
        /\ \A i \in 1..Len(attrs_multiple) : attrs_multiple[i] # attr_name
     THEN << <<"multiple", attr_name>> >> ELSE <<>>)

\* The body of the loop over attrs_required
RequiredErrors(names, attr_required) ==
    IF \A i \in 1..Len(names) : names[i] # attr_required
    THEN << <<"missing", attr_required>> >> ELSE <<>>

RECURSIVE Concat(_)
Concat(seqs) == IF seqs = <<>> THEN <<>> ELSE Head(seqs) \o Concat(Tail(seqs))

\* The two loops, over the names present and over the required names.
CountErrors(names, present) ==
    Concat([i \in 1..Len(present) |-> PresentErrors(names, present[i])])
    \o Concat([i \in 1..Len(attrs_required) |->
                   RequiredErrors(names, attrs_required[i])])

\* The errors the method records, in order.
ValidateAttributeCounts(data) ==
    CountErrors(AttrNames(data), DistinctInOrder(AttrNames(data), 1, <<>>))

(***************************************************************************)
(* RPSLObject._clean_attribute_data                                        *)
(***************************************************************************)
\* dict[key] = value
DictSet(d, key, value) ==
    [k \in (DOMAIN d) \cup {key} |-> IF k = key THEN value ELSE d[k]]

EmptyDict == [k \in {} |-> <<>>]

\* ShouldClean, were the strictness test dropped.
ShouldCleanIgnoringStrict(attr_name, strict) == HasField(attr_name)

\* `if field and (self.strict_validation or field.primary_key or field.lookup_key)`
ShouldClean(attr_name, strict) ==
    HasField(attr_name)
    /\ (strict \/ FieldOf(attr_name).primary_key \/ FieldOf(attr_name).lookup_key)

\* Accumulate, were a later occurrence to overwrite the earlier ones.
AccumulateOverwriting(cleaned, attr_name, cleaned_value) ==
    DictSet(cleaned, attr_name, cleaned_value)

\* Lines 203-206: the accumulation into cleaned_data.
Accumulate(cleaned, attr_name, cleaned_value) ==
    IF attr_name \in DOMAIN cleaned
    THEN DictSet(cleaned, attr_name, cleaned[attr_name] \o <<NL>> \o cleaned_value)
    ELSE DictSet(cleaned, attr_name, cleaned_value)

\* Lines 197-202: the cosmetic rewrite of the stored raw value.
Rewrite(data, idx, normalised_value, cleaned_value) ==
    IF cleaned_value # normalised_value
    THEN [data EXCEPT ![idx] =
             <<data[idx][1], Replace(data[idx][2], normalised_value, cleaned_value),
               data[idx][3]>>]
    ELSE data

\* Lines 196-206, given the result r of field.clean; st = [data, cleaned,
\* errors, calls].
CleanResult(st, idx, normalised_value, r) ==
    [data |-> IF r.ok /\ r.value # <<>>            \* `if cleaned_value:`
              THEN Rewrite(st.data, idx, normalised_value, r.value)
              ELSE st.data,
     cleaned |-> IF r.ok /\ r.value # <<>>
                 THEN Accumulate(st.cleaned, st.data[idx][1], r.value)
                 ELSE st.cleaned,
     errors |-> st.errors \o r.errors,
     calls |-> Append(st.calls, [idx |-> idx, name |-> st.data[idx][1],
                                 arg |-> normalised_value,
                                 ok |-> r.ok, value |-> r.value])]

\* Lines 194-195
CleanField(st, idx, normalised_value) ==
    CleanResult(st, idx, normalised_value,
                FieldClean(FieldOf(st.data[idx][1]), normalised_value))

\* One iteration of the loop over enumerate(self._object_data).
CleanOccurrence(st, idx, strict) ==
    IF ~ShouldClean(st.data[idx][1], strict)
    THEN st
    ELSE CleanField(st, idx, NormaliseRpslValue(st.data[idx][2]))

RECURSIVE CleanLoop(_, _, _)
CleanLoop(st, idx, strict) ==
    IF idx > Len(st.data) THEN st
    ELSE CleanLoop(CleanOccurrence(st, idx, strict), idx + 1, strict)

CleanAttributeData(data, cleaned, strict) ==
    CleanLoop([data |-> data, cleaned |-> cleaned, errors |-> <<>>, calls |-> <<>>],
              1, strict)

(***************************************************************************)
(* RPSLObject._validate_object (clean() is the default accept)             *)
(***************************************************************************)
PrependErrors(errors, c) == [c EXCEPT !.errors = errors \o @]

ValidateObject(data, strict) ==
    PrependErrors(IF strict THEN ValidateAttributeCounts(data) ELSE <<>>,
                  CleanAttributeData(data, EmptyDict, strict))

(***************************************************************************)
(* RPSLObject.read_rpsl_text: [status, data, extracted, cleaned, errors,   *)
(* calls]                                                                  *)
(***************************************************************************)
ReadValidated(ex, v) ==
    [status |-> "ok", data |-> v.data, extracted |-> ex.data,
     cleaned |-> v.cleaned, errors |-> ex.errors \o v.errors, calls |-> v.calls]

ReadExtracted(ex, strict) ==
    IF ex.status # "ok"
    THEN [status |-> ex.status, data |-> ex.data, extracted |-> ex.data,
          cleaned |-> EmptyDict, errors |-> ex.errors, calls |-> <<>>]
    ELSE ReadValidated(ex, ValidateObject(ex.data, strict))

ReadRpslTextResult(data, text, strict) ==
    ReadExtracted(ExtractAttributesValues(data, text), strict)

(***************************************************************************)
(* RPSLObject.render_rpsl_text                                             *)
(***************************************************************************)
\* Lines 94-97: one physical line of a value, idx counted from 0.
RenderLine(attr_display, line, chars, idx) ==
    IF idx = 0
    THEN attr_display \o line
    ELSE <<chars[idx]>> \o Spaces(RPSL_ATTRIBUTE_TEXT_WIDTH - 1) \o line

\* The inner loop over enumerate(value_lines), from index idx on, appending
\* to out.  continuation_chars[idx-1] raises IndexError past the end of the list.
RECURSIVE RenderLines(_, _, _, _, _)
RenderLines(attr_display, value_lines, chars, idx, out) ==
    IF idx >= Len(value_lines)
    THEN [status |-> "ok", out |-> out]
    ELSE IF idx > 0 /\ idx > Len(chars)
    THEN [status |-> "IndexError", out |-> out]
    ELSE RenderLines(attr_display, value_lines, chars, idx + 1,
                     out \o RenderLine(attr_display, value_lines[idx + 1], chars, idx)
                         \o <<NL>>)

\* Lines 89-98, the body of the outer loop, appending to out.
RenderValue(attr, value_lines, chars, out) ==
    IF value_lines = <<>>
    THEN [status |-> "ok", out |-> out \o attr \o <<":", NL>>]
    ELSE RenderLines(LJust(attr \o <<":">>, RPSL_ATTRIBUTE_TEXT_WIDTH),
                     value_lines, chars, 0, out)

RenderAttribute(entry, out) ==
    RenderValue(entry[1], SplitLines(entry[2]), entry[3], out)

\* The outer loop over self._object_data, from the i-th entry on; r is the
\* [status, out] so far.
RECURSIVE RenderLoop(_, _, _)
RenderLoop(data, i, r) ==
    IF i > Len(data) \/ r.status # "ok"
    THEN r
    ELSE RenderLoop(data, i + 1, RenderAttribute(data[i], r.out))

RenderRpslText(data) == RenderLoop(data, 1, [status |-> "ok", out |-> <<>>])

(***************************************************************************)
(* RPSLObject._update_attribute_value                                      *)
(***************************************************************************)
\* list.insert(i, x), i counted from 0: past the end it appends.
ListInsert(s, i, x) ==
    IF i >= Len(s) THEN Append(s, x)
    ELSE SubSeq(s, 1, i) \o <<x>> \o SubSeq(s, i + 1, Len(s))

\* The loop over new_values, from the k-th (1-based) on, inserting at insert_idx.
RECURSIVE InsertValues(_, _, _, _, _)
InsertValues(data, attribute, new_values, k, insert_idx) ==
    IF k > Len(new_values) THEN data
    ELSE InsertValues(ListInsert(data, insert_idx, <<attribute, new_values[k], <<>>>>),
                      attribute, new_values, k + 1, insert_idx + 1)

\* self.cleaned_data["attribute"]: the key is the literal, not the argument.
AttributeKey == <<"a", "t", "t", "r", "i", "b", "u", "t", "e">>

\* list(filter(lambda a: a[0] != attribute, self._object_data))
RECURSIVE FilterOut(_, _, _, _)
FilterOut(data, attribute, i, acc) ==
    IF i > Len(data) THEN acc
    ELSE FilterOut(data, attribute, i + 1,
                   IF data[i][1] # attribute THEN Append(acc, data[i]) ELSE acc)

\* `if isinstance(new_values, str): new_values = [new_values]`;
\* the argument is [isstr, val]: a str or a list of str.
AsList(new_values) ==
    IF new_values.isstr THEN <<new_values.val>> ELSE new_values.val

\* UpdateAttributeValue, were insert_idx to start at 0.
UpdateAttributeValueInsertingFirst(data, cleaned, attribute, new_values) ==
    [cleaned |-> DictSet(cleaned, AttributeKey, Join(AsList(new_values), <<NL>>)),
     data |-> InsertValues(FilterOut(data, attribute, 1, <<>>), attribute,
                           AsList(new_values), 1, 0)]

UpdateAttributeValue(data, cleaned, attribute, new_values) ==
    [cleaned |-> DictSet(cleaned, AttributeKey, Join(AsList(new_values), <<NL>>)),
     data |-> InsertValues(FilterOut(data, attribute, 1, <<>>), attribute,
                           AsList(new_values), 1, 1)]

(***************************************************************************)
(* Inputs                                                                  *)
(***************************************************************************)
SeqsUpTo(S, n) == UNION {[1..k -> S] : k \in 0..n}

\* The physical lines the input texts are made of.
TextLines ==
    { <<>>,                                    \* an empty line
      <<"A", ":", " ", "x", " ", "#", "k">>,   \* "A: x #k"
      <<"b", ":">>,                            \* "b:"
      <<"c", ":">>,                            \* "c:"
      <<"d", ":", "x">>,                       \* "d:x", not in the schema
      <<"x">>,                                 \* a start line without ':'
      <<"?", ":", "x">>,                       \* a malformed attribute name
      <<"+", "y">>,                            \* "+y"
      <<" ", "b", ":", "y">>,                  \* " b:y"
      <<"+">> }                                \* an empty continuation line

Texts == {Join(ls, <<NL>>) : ls \in SeqsUpTo(TextLines, MaxLines)}

\* The texts of the objects the update specification starts from.
UpdateTexts ==
    { Join(ls, <<NL>>) : ls \in
        { << <<"c", ":">> >>,
          << <<"b", ":">>, <<"+", "y">> >>,
          << <<"c", ":">>, <<"b", ":">> >>,
          << <<"b", ":">>, <<"c", ":">>, <<"+", "y">>, <<"b", ":">>, <<"+">>,
             <<"A", ":", " ", "x", " ", "#", "k">> >>,
          << <<"A", ":", " ", "x", " ", "#", "k">>, <<"d", ":", "x">>,
             <<"b", ":">> >> } }

UpdateAttributes == { <<"b">>, <<"d">> }
UpdateStrings == { <<"r">>, <<"r", NL, "s">> }
UpdateNewValues ==
    {[isstr |-> TRUE, val |-> v] : v \in UpdateStrings}
    \cup {[isstr |-> FALSE, val |-> vs] : vs \in SeqsUpTo(UpdateStrings, MaxNewValues)}

NormaliseAlphabet == {"x", "#", ",", " ", TAB, NL}
NormaliseValues == SeqsUpTo(NormaliseAlphabet, MaxValueLen)

(***************************************************************************)
(* The state machine                                                       *)
(***************************************************************************)
None == [kind |-> "None"]
Str(s) == [kind |-> "str", val |-> s]

\* RPSLObject.__init__ up to `if from_text:`.
Init ==
    /\ pc = "new"
    /\ strict_validation \in BOOLEAN
    /\ messages = <<>>
    /\ object_data = <<>>
    /\ cleaned_data = EmptyDict
    /\ raised = "none"
    /\ result = None
    /\ call = [op |-> "init"]
    /\ extracted = <<>>
    /\ clean_calls = <<>>
    /\ updates = 0

\* read_rpsl_text(text), as __init__ calls it on the new object.
ReadRpslText(texts) ==
    /\ pc = "new"
    /\ \E text \in texts :
       \E r \in {ReadRpslTextResult(object_data, text, strict_validation)} :
          /\ pc' = IF r.status = "ok" THEN "parsed" ELSE "raised"
          /\ raised' = IF r.status = "ok" THEN "none" ELSE r.status
          /\ messages' = r.errors
          /\ object_data' = r.data
          /\ cleaned_data' = r.cleaned
          /\ extracted' = r.extracted
          /\ clean_calls' = r.calls
          /\ call' = [op |-> "read", text |-> text]
          /\ result' = None
    /\ UNCHANGED <<strict_validation, updates>>

\* render_rpsl_text()
Render ==
    /\ pc = "parsed"
    /\ \E r \in {RenderRpslText(object_data)} :
          /\ raised' = IF r.status = "ok" THEN "none" ELSE r.status
          /\ result' = IF r.status = "ok" THEN Str(r.out) ELSE None
    /\ call' = [op |-> "render"]
    /\ UNCHANGED <<pc, strict_validation, messages, object_data, cleaned_data,
                   extracted, clean_calls, updates>>

\* _update_attribute_value(attribute, new_values)
Update ==
    /\ pc = "parsed"
    /\ updates < MaxUpdates
    /\ \E attribute \in UpdateAttributes, new_values \in UpdateNewValues :
       \E r \in {UpdateAttributeValue(object_data, cleaned_data, attribute, new_values)} :
          /\ object_data' = r.data
          /\ cleaned_data' = r.cleaned
          /\ call' = [op |-> "update", attribute |-> attribute,
                      new_values |-> new_values, before |-> object_data]
    /\ updates' = updates + 1
    /\ raised' = "none"
    /\ result' = None
    /\ UNCHANGED <<pc, strict_validation, messages, extracted, clean_calls>>

\* _normalise_rpsl_value(value)
Normalise ==
    /\ pc = "new"
    /\ \E value \in NormaliseValues :
          /\ call' = [op |-> "normalise", value |-> value]
          /\ result' = Str(NormaliseRpslValue(value))
    /\ raised' = "none"
    /\ UNCHANGED <<pc, strict_validation, messages, object_data, cleaned_data,
                   extracted, clean_calls, updates>>

Read == ReadRpslText(Texts)
ReadForUpdate == ReadRpslText(UpdateTexts)

\* Parsing and rendering.
Next == Read \/ Render
Spec == Init /\ [][Next]_vars

\* Parsing a few objects, then updating and rendering them.
NextUpdate == ReadForUpdate \/ Update \/ Render
SpecUpdate == Init /\ [][NextUpdate]_vars

\* The normaliser on its own.
NextNormalise == Normalise
SpecNormalise == Init /\ [][NextNormalise]_vars

(***************************************************************************)
(* Properties                                                              *)
(***************************************************************************)
AfterRead == call.op = "read"
Returned == raised = "none"

IsStructural(m) == m[1] \in {"empty_line", "malformed_name"}
IsCardinality(m) == m[1] \in {"unrecognised", "multiple", "missing"}
StructuralErrors == SelectSeq(messages, IsStructural)
CardinalityErrors == SelectSeq(messages, IsCardinality)

\* How often message m was recorded.
Recorded(m) == Cardinality({i \in 1..Len(messages) : messages[i] = m})

Keys == Range(pk_fields) \cup Range(lookup_fields)

\* C1: parsing never raises: whatever the text, read_rpsl_text returns
\* normally and problems are only reported as messages.
C1_ParsingNeverRaises == AfterRead => raised = "none"

\* C2: for a text parsed without structural error, parsing the rendering of the
\* parsed object gives back the same attribute lines (names, raw values, fold
\* markers).
C2_RoundTripStable ==
    (AfterRead /\ Returned /\ StructuralErrors = <<>>)
    => /\ RenderRpslText(object_data).status = "ok"
       /\ ReadRpslTextResult(<<>>, RenderRpslText(object_data).out,
                             strict_validation).status = "ok"
       /\ ReadRpslTextResult(<<>>, RenderRpslText(object_data).out,
                             strict_validation).data = object_data

(***************************************************************************)
(* C3.  The attributes a text holds before its first empty line, read off  *)
(* the physical lines: every start line opens an attribute, which owns the *)
(* continuation lines up to the next start line.                           *)
(***************************************************************************)
RawLines == Split(call.text, NL)

IsStartLine(line) == line # <<>> /\ line[1] \notin {" ", "+", TAB}

NameOf(line) == Lower(SubSeq(line, 1, IndexOf(line, ":") - 1))

IsWellFormedStart(line) ==
    /\ IsStartLine(line)
    /\ Contains(line, ":")
    /\ (NameOf(line) \in Range(attrs_allowed) \/ ReAttrNameMatch(NameOf(line)))

FirstEmpty == IndexOf(RawLines, <<>>)

\* An empty line between two attributes: well-formed attributes up to the first
\* empty line, and an attribute starting right after it.
EmptyLineBetweenAttributes ==
    /\ AfterRead
    /\ FirstEmpty > 1
    /\ FirstEmpty < Len(RawLines)
    /\ IsWellFormedStart(RawLines[1])
    /\ \A i \in 1..(FirstEmpty - 1) :
          IsStartLine(RawLines[i]) => IsWellFormedStart(RawLines[i])
    /\ IsWellFormedStart(RawLines[FirstEmpty + 1])

StartsBefore == {i \in 1..(FirstEmpty - 1) : IsStartLine(RawLines[i])}

\* The line after the last line of the attribute starting at line i.
BlockEnd(i) ==
    CHOOSE e \in (i + 1)..FirstEmpty :
        /\ e = FirstEmpty \/ IsStartLine(RawLines[e])
        /\ \A j \in (i + 1)..(e - 1) : ~IsStartLine(RawLines[j])

BlockOf(i) ==
    << NameOf(RawLines[i]),
       Strip(SubSeq(RawLines[i], IndexOf(RawLines[i], ":") + 1, Len(RawLines[i])),
             Whitespace)
         \o Concat([j \in 1..(BlockEnd(i) - i - 1) |->
                       <<NL>> \o Strip(Tail(RawLines[i + j]), Whitespace)]),
       [j \in 1..(BlockEnd(i) - i - 1) |-> RawLines[i + j][1]] >>

AttributesBeforeEmpty ==
    [n \in 1..Cardinality(StartsBefore) |->
        BlockOf(CHOOSE i \in StartsBefore :
                    Cardinality({j \in StartsBefore : j < i}) = n - 1)]

\* C3 as claimed: with an empty line between two attributes, extraction leaves
\* exactly the attributes before the empty line and one structural error.
C3_AllAttributesBeforeEmptyLine ==
    EmptyLineBetweenAttributes
    => /\ Returned
       /\ extracted = AttributesBeforeEmpty
       /\ Len(StructuralErrors) = 1

\* C3: with an empty line between two attributes, extraction leaves exactly the
\* attributes before the empty line except the last of them (the one still
\* pending when the empty line is met is not saved), nothing from the lines
\* after it, and exactly one structural error, naming the empty line.
C3_AttributesBeforeEmptyLineButLast ==
    EmptyLineBetweenAttributes
    => /\ Returned
       /\ extracted = SubSeq(AttributesBeforeEmpty, 1, Len(AttributesBeforeEmpty) - 1)
       /\ StructuralErrors = << <<"empty_line", FirstEmpty>> >>

C3_Witness ==
    /\ EmptyLineBetweenAttributes
    /\ Len(extracted) >= 1
    /\ Len(AttributesBeforeEmpty) = Len(extracted) + 1
    /\ Len(StructuralErrors) = 1

\* The number of line breaks embedded in a raw value.
LineBreaks(value) == Cardinality({i \in 1..Len(value) : value[i] = NL})

\* C4: every stored attribute line has exactly one fold marker per line break
\* embedded in its raw value, after parsing and after any update.
C4_OneFoldMarkerPerLineBreak ==
    pc = "parsed"
    => \A i \in 1..Len(object_data) :
          Len(object_data[i][3]) = LineBreaks(object_data[i][2])

(***************************************************************************)
(* C5.  The effect of _update_attribute_value, read off its arguments and  *)
(* the occurrence list before the call.                                    *)
(***************************************************************************)
UpdatedName == call.attribute
UpdatedValues ==
    IF call.new_values.isstr THEN <<call.new_values.val>> ELSE call.new_values.val
KeptLines == SelectSeq(call.before, LAMBDA a : a[1] # UpdatedName)
NewLines == [j \in 1..Len(UpdatedValues) |-> <<UpdatedName, UpdatedValues[j], <<>>>>]

C6_CardinalityErrorsExact ==
    (AfterRead /\ Returned /\ strict_validation)
    => /\ \A n \in Range(AttrNames(extracted)) \cup Range(attrs_required) :
             /\ Recorded(<<"unrecognised", n>>) =
                   IF n \in Range(AttrNames(extracted)) /\ n \notin Range(attrs_allowed)
                   THEN 1 ELSE 0
             /\ Recorded(<<"multiple", n>>) =
                   IF CountOf(AttrNames(extracted), n) > 1
                      /\ n \notin Range(attrs_multiple)
                   THEN 1 ELSE 0
             /\ Recorded(<<"missing", n>>) =
                   IF n \in Range(attrs_required)
                      /\ n \notin Range(AttrNames(extracted))
                   THEN 1 ELSE 0
       /\ \A i \in 1..Len(CardinalityErrors) :
             CardinalityErrors[i][2] \in
                 Range(AttrNames(extracted)) \cup Range(attrs_required)

C6_Witness ==
    /\ AfterRead /\ Returned /\ strict_validation
    /\ \E n \in Range(AttrNames(extracted)) :
          /\ Recorded(<<"unrecognised", n>>) = 1
          /\ Recorded(<<"multiple", n>>) = 1
    /\ \E n \in Range(attrs_required) : Recorded(<<"missing", n>>) = 1
    /\ \E n \in Range(attrs_multiple) : CountOf(AttrNames(extracted), n) > 1
    /\ Len(CardinalityErrors) = 3

\* C7: relaxed validation records no cardinality error, cleans only occurrences
\* of primary-key or lookup-key fields, so cleaned_data has only such keys and
\* the raw value of every other occurrence is as extracted; strict validation
\* cleans every occurrence whose name has a field.
C7_RelaxedCleansKeysOnly ==
    (AfterRead /\ Returned)
    => /\ ~strict_validation =>
             /\ CardinalityErrors = <<>>
             /\ \A i \in 1..Len(clean_calls) : clean_calls[i].name \in Keys
             /\ DOMAIN cleaned_data \subseteq Keys
             /\ Len(object_data) = Len(extracted)
             /\ \A i \in 1..Len(extracted) :
                   extracted[i][1] \notin Keys => object_data[i] = extracted[i]
       /\ strict_validation =>
             {clean_calls[i].idx : i \in 1..Len(clean_calls)}
                = {i \in 1..Len(extracted) : HasField(extracted[i][1])}

\* A relaxed parse holding a key occurrence that was cleaned, and a non-key
\* occurrence that a strict parse of the same text rewrites.
C7_Witness ==
    /\ AfterRead /\ Returned /\ ~strict_validation
    /\ clean_calls # <<>>
    /\ \E i \in 1..Len(extracted) :
          /\ HasField(extracted[i][1])
          /\ extracted[i][1] \notin Keys
          /\ ReadRpslTextResult(<<>>, call.text, TRUE).data[i] # extracted[i]

(***************************************************************************)
(* C8.  What each occurrence contributes to cleaned_data, read off the     *)
(* extracted occurrences.                                                  *)
(***************************************************************************)
\* The outcome of field.clean for the i-th extracted occurrence.
CleanOutcome(i) ==
    FieldClean(FieldOf(extracted[i][1]), NormaliseRpslValue(extracted[i][2]))

\* The occurrences of name n that are cleaned, in order.
CleanedOccurrences(n) ==
    SelectSeq([i \in 1..Len(extracted) |-> i],
              LAMBDA i : extracted[i][1] = n /\ ShouldClean(n, strict_validation))

Succeeds(i) == CleanOutcome(i).ok
SucceedsNonEmpty(i) == CleanOutcome(i).ok /\ CleanOutcome(i).value # <<>>

ValuesOf(occurrences) ==
    [k \in 1..Len(occurrences) |-> CleanOutcome(occurrences[k]).value]

AccumulatedAs(n, contributions) ==
    IF contributions = <<>>
    THEN n \notin DOMAIN cleaned_data
    ELSE n \in DOMAIN cleaned_data /\ cleaned_data[n] = Join(contributions, <<NL>>)

BeforeHash(line) ==
    IF Contains(line, "#") THEN SubSeq(line, 1, IndexOf(line, "#") - 1) ELSE line

ReferenceNormalForm(value) ==
    IF Contains(value, NL)
    THEN Join(SelectSeq([i \in 1..Len(Split(value, NL)) |->
                            Strip(BeforeHash(Split(value, NL)[i]),
                                  {" ", TAB, NL, ","})],
                        NonEmpty),
              <<",">>)
    ELSE Strip(BeforeHash(value), {" ", TAB, NL})

\* C9: the normalised value is the reference normal form: per physical line
\* the text before the first '#', trimmed of whitespace (spaces and tabs) and
\* of leading and trailing commas, empty lines dropped, joined by ','; for a
\* single line the text before the first '#', trimmed.  It holds no '#' and no
\* line break.
C9_NormalisedIsReference ==
    call.op = "normalise"
    => /\ result.val = ReferenceNormalForm(call.value)
       /\ ~Contains(result.val, "#")
       /\ ~Contains(result.val, NL)

(***************************************************************************)
(* C10.  The text without its leading continuation lines.                  *)
(***************************************************************************)
RECURSIVE DropLeadingContinuations(_)
DropLeadingContinuations(text) ==
    IF text # <<>> /\ text[1] \in {" ", "+", TAB}
    THEN IF Contains(text, NL)
         THEN DropLeadingContinuations(SubSeq(text, IndexOf(text, NL) + 1, Len(text)))
         ELSE <<>>
    ELSE text

\* The input opens with continuation lines, and a start line follows them.
LeadingContinuationThenAttribute ==
    /\ AfterRead
    /\ call.text # <<>>
    /\ call.text[1] \in {" ", "+", TAB}
    /\ DropLeadingContinuations(call.text) # <<>>
    /\ DropLeadingContinuations(call.text)[1] # NL

\* C10: continuation lines at the start of the input, met while no attribute
\* is pending, are dropped: they yield no attribute line and no error, and the
\* attributes that follow are extracted as they are from the text without them.
C10_LeadingContinuationDropped ==
    (LeadingContinuationThenAttribute /\ Returned)
    => /\ ExtractAttributesValues(<<>>, DropLeadingContinuations(call.text)).status = "ok"
       /\ extracted =
             ExtractAttributesValues(<<>>, DropLeadingContinuations(call.text)).data
       /\ Len(StructuralErrors) =
             Len(ExtractAttributesValues(<<>>, DropLeadingContinuations(call.text)).errors)

====
